---- MODULE Spec2Model ----
(***************************************************************************)
(* Model of scripts/build_index.py of the mods registry: the manifest      *)
(* validator (validate_manifest), the placeholder-hash audit               *)
(* (check_placeholder_hashes), the literal normaliser (_coerce_floats) and *)
(* the aggregator (build_index).                                           *)
(*                                                                         *)
(* Python values (what yaml.safe_load returns) are tagged records          *)
(* [t |-> tag, v |-> payload]; a Python str is a sequence of one-character *)
(* strings so that substring tests, prefix tests, comparisons and float    *)
(* parsing are computed and not assumed.  A mapping is a TLA+ function     *)
(* from key names to values; its keys are iterated in the order of         *)
(* KeyOrder (the model's documents list their keys in that order).         *)
(***************************************************************************)
EXTENDS Integers, Sequences, FiniteSets, TLC

-----------------------------------------------------------------------------
(* Bounds of the model *)

\* number of manifest files in a corpus
MaxFiles == 2

-----------------------------------------------------------------------------
(* Characters and strings *)

\* the characters of the model in code-point order (Python compares str by code point)
Alphabet ==
  << " ", "+", "-", ".",
     "0", "1", "2", "3", "4", "5", "6", "7", "8", "9",
     "A", "B", "C", "D", "E", "F", "G", "H", "I", "J", "K", "L", "M",
     "N", "O", "P", "Q", "R", "S", "T", "U", "V", "W", "X", "Y", "Z",
     "_",
     "a", "b", "c", "d", "e", "f", "g", "h", "i", "j", "k", "l", "m",
     "n", "o", "p", "q", "r", "s", "t", "u", "v", "w", "x", "y", "z" >>

Ord(c) == CHOOSE i \in 1..Len(Alphabet) : Alphabet[i] = c

Digits == <<"0", "1", "2", "3", "4", "5", "6", "7", "8", "9">>

IsDigit(c) == \E i \in 1..10 : Digits[i] = c

DigitVal(c) == (CHOOSE i \in 1..10 : Digits[i] = c) - 1

\* str.lower() on one character
LowerChar(c) ==
  LET i == Ord(c) IN IF i >= Ord("A") /\ i <= Ord("Z") THEN Alphabet[i + 27] ELSE c

\* str.lower()
Lower(s) == [i \in 1..Len(s) |-> LowerChar(s[i])]

\* str.startswith(p)
StartsWith(s, p) == Len(s) >= Len(p) /\ SubSeq(s, 1, Len(p)) = p

\* p in s, for two str
IsSubstr(p, s) ==
  \E i \in 0..(Len(s) - Len(p)) : SubSeq(s, i + 1, i + Len(p)) = p

\* a < b for two str (lexicographic, by code point)
RECURSIVE StrLess(_, _)
StrLess(a, b) ==
  IF b = <<>> THEN FALSE
  ELSE IF a = <<>> THEN TRUE
  ELSE IF a[1] # b[1] THEN Ord(a[1]) < Ord(b[1])
  ELSE StrLess(Tail(a), Tail(b))

\* the characters of the key names and literals the code mentions
Chars(k) ==
  CASE k = "id" -> <<"i", "d">>
    [] k = "name" -> <<"n", "a", "m", "e">>
    [] k = "type" -> <<"t", "y", "p", "e">>
    [] k = "category" -> <<"c", "a", "t", "e", "g", "o", "r", "y">>
    [] k = "variants" -> <<"v", "a", "r", "i", "a", "n", "t", "s">>
    [] k = "file" -> <<"f", "i", "l", "e">>
    [] k = "recipe" -> <<"r", "e", "c", "i", "p", "e">>
    [] k = "base_model" -> <<"b", "a", "s", "e", "_", "m", "o", "d", "e", "l">>
    [] k = "url" -> <<"u", "r", "l">>
    [] k = "sha256" -> <<"s", "h", "a", "2", "5", "6">>
    [] k = "size" -> <<"s", "i", "z", "e">>
    [] k = "lr" -> <<"l", "r">>
    [] k = "cloud_available" ->
         <<"c", "l", "o", "u", "d", "_", "a", "v", "a", "i", "l", "a", "b", "l", "e">>
    [] k = "checkpoint" -> <<"c", "h", "e", "c", "k", "p", "o", "i", "n", "t">>
    [] k = "checkpoints" -> <<"c", "h", "e", "c", "k", "p", "o", "i", "n", "t", "s">>
    [] k = "lora" -> <<"l", "o", "r", "a">>
    [] k = "loras" -> <<"l", "o", "r", "a", "s">>
    [] k = "recipes" -> <<"r", "e", "c", "i", "p", "e", "s">>
    [] k = "general" -> <<"g", "e", "n", "e", "r", "a", "l">>
    [] k = "misc" -> <<"m", "i", "s", "c">>
    [] k = "VERIFY_" -> <<"V", "E", "R", "I", "F", "Y", "_">>
    [] k = "0x" -> <<"0", "x">>
    [] k = "e" -> <<"e">>

\* the order in which a mapping's keys are iterated (document order)
KeyOrder ==
  << "id", "name", "type", "category", "variants", "file", "recipe", "base_model",
     "url", "sha256", "size", "lr", "cloud_available" >>

-----------------------------------------------------------------------------
(* Python values *)

S(c) == [t |-> "str", v |-> c]
I(n) == [t |-> "int", v |-> n]
B(b) == [t |-> "bool", v |-> b]
F(m, e) == [t |-> "float", v |-> <<m, e>>]
L(s) == [t |-> "list", v |-> s]
M(f) == [t |-> "map", v |-> f]
None == [t |-> "null", v |-> 0]

\* the str of a key name or literal
K(k) == S(Chars(k))

-----------------------------------------------------------------------------
(* Python operations that the code applies to parsed values.  Each one that *)
(* can raise has a guard operator saying when it does not.                  *)

\* `x in obj` raises TypeError unless obj is a dict, a list or a str
CanIn(obj) == obj.t \in {"map", "list", "str"}

\* `k in obj` for a key name k: dict key, list element, substring of a str
In(k, obj) ==
  CASE obj.t = "map" -> k \in DOMAIN obj.v
    [] obj.t = "list" -> \E i \in 1..Len(obj.v) : obj.v[i] = K(k)
    [] obj.t = "str" -> IsSubstr(Chars(k), obj.v)
    [] OTHER -> FALSE

\* len(obj) raises TypeError unless obj is a dict, a list or a str
HasLen(obj) == obj.t \in {"map", "list", "str"}

PyLen(obj) == IF obj.t = "map" THEN Cardinality(DOMAIN obj.v) ELSE Len(obj.v)

\* obj["key"] raises TypeError on a list or a str
Subscriptable(obj) == obj.t = "map"

\* `x in a_set` raises TypeError when x is a list or a dict
Hashable(obj) == obj.t \notin {"list", "map"}

\* isinstance(x, int): bool is a subclass of int
IsInstanceInt(obj) == obj.t \in {"int", "bool"}

\* bool(obj)
Truthy(obj) ==
  CASE obj.t = "null" -> FALSE
    [] obj.t = "bool" -> obj.v
    [] obj.t = "int" -> obj.v # 0
    [] obj.t = "float" -> obj.v[1] # 0
    [] obj.t = "str" -> obj.v # <<>>
    [] obj.t = "list" -> obj.v # <<>>
    [] obj.t = "map" -> DOMAIN obj.v # {}

\* the elements `for x in obj` yields: list items, the characters of a str,
\* the keys of a dict
Iter(obj) ==
  CASE obj.t = "list" -> obj.v
    [] obj.t = "str" -> [i \in 1..Len(obj.v) |-> S(<<obj.v[i]>>)]
    [] obj.t = "map" ->
         LET ks == SelectSeq(KeyOrder, LAMBDA k : k \in DOMAIN obj.v)
         IN  [i \in 1..Len(ks) |-> K(ks[i])]
    [] OTHER -> <<>>

-----------------------------------------------------------------------------
(* Constants of build_index.py *)

VALID_TYPES ==
  { <<"c", "h", "e", "c", "k", "p", "o", "i", "n", "t">>,
    <<"d", "i", "f", "f", "u", "s", "i", "o", "n", "_", "m", "o", "d", "e", "l">>,
    <<"l", "o", "r", "a">>,
    <<"v", "a", "e">>,
    <<"t", "e", "x", "t", "_", "e", "n", "c", "o", "d", "e", "r">>,
    <<"c", "o", "n", "t", "r", "o", "l", "n", "e", "t">>,
    <<"u", "p", "s", "c", "a", "l", "e", "r">>,
    <<"e", "m", "b", "e", "d", "d", "i", "n", "g">>,
    <<"i", "p", "a", "d", "a", "p", "t", "e", "r">>,
    <<"s", "e", "g", "m", "e", "n", "t", "a", "t", "i", "o", "n">>,
    <<"r", "e", "c", "i", "p", "e">> }

\* the pairs <<directory name, type>>
TYPE_DIR_MAP ==
  { <<<<"c", "h", "e", "c", "k", "p", "o", "i", "n", "t", "s">>,
       <<"c", "h", "e", "c", "k", "p", "o", "i", "n", "t">>>>,
    <<<<"d", "i", "f", "f", "u", "s", "i", "o", "n", "_", "m", "o", "d", "e", "l", "s">>,
       <<"d", "i", "f", "f", "u", "s", "i", "o", "n", "_", "m", "o", "d", "e", "l">>>>,
    <<<<"l", "o", "r", "a", "s">>,
       <<"l", "o", "r", "a">>>>,
    <<<<"v", "a", "e">>,
       <<"v", "a", "e">>>>,
    <<<<"t", "e", "x", "t", "_", "e", "n", "c", "o", "d", "e", "r", "s">>,
       <<"t", "e", "x", "t", "_", "e", "n", "c", "o", "d", "e", "r">>>>,
    <<<<"c", "o", "n", "t", "r", "o", "l", "n", "e", "t">>,
       <<"c", "o", "n", "t", "r", "o", "l", "n", "e", "t">>>>,
    <<<<"u", "p", "s", "c", "a", "l", "e", "r", "s">>,
       <<"u", "p", "s", "c", "a", "l", "e", "r">>>>,
    <<<<"e", "m", "b", "e", "d", "d", "i", "n", "g", "s">>,
       <<"e", "m", "b", "e", "d", "d", "i", "n", "g">>>>,
    <<<<"i", "p", "a", "d", "a", "p", "t", "e", "r", "s">>,
       <<"i", "p", "a", "d", "a", "p", "t", "e", "r">>>>,
    <<<<"s", "e", "g", "m", "e", "n", "t", "a", "t", "i", "o", "n">>,
       <<"s", "e", "g", "m", "e", "n", "t", "a", "t", "i", "o", "n">>>>,
    <<<<"r", "e", "c", "i", "p", "e", "s">>,
       <<"r", "e", "c", "i", "p", "e">>>> }

VALID_CATEGORIES ==
  { <<"g", "e", "n", "e", "r", "a", "l">>,
    <<"s", "t", "y", "l", "e">>,
    <<"c", "h", "a", "r", "a", "c", "t", "e", "r">>,
    <<"c", "o", "n", "c", "e", "p", "t">>,
    <<"p", "r", "o", "d", "u", "c", "t">>,
    <<"t", "e", "c", "h", "n", "i", "q", "u", "e">>,
    <<"a", "c", "c", "e", "l", "e", "r", "a", "t", "i", "o", "n">>,
    <<"e", "d", "i", "t", "i", "n", "g">>,
    <<"u", "p", "s", "c", "a", "l", "i", "n", "g">>,
    <<"s", "e", "g", "m", "e", "n", "t", "a", "t", "i", "o", "n">>,
    <<"c", "o", "n", "t", "r", "o", "l", "n", "e", "t">> }

PLACEHOLDER_PREFIX == Chars("VERIFY_")

IsRecognizedDir(d) == \E p \in TYPE_DIR_MAP : p[1] = d

ExpectedType(d) == (CHOOSE p \in TYPE_DIR_MAP : p[1] = d)[2]

-----------------------------------------------------------------------------
(* validate_manifest *)

\* one error string of validate_manifest: its kind, the variant index (or -1)
\* and the field it names (or "")
Err(code, idx, field) == [code |-> code, idx |-> idx, field |-> field]

\* the outcome of a call: it raised an exception, or returned `errors`
Raise == [raised |-> TRUE, errors |-> <<>>]

Ret(errs) == [raised |-> FALSE, errors |-> errs]

\* Then with the checks stopping at the first one that found an error
Then_FirstErrorOnly(r1, r2) == IF r1.raised THEN Raise
                               ELSE IF r1.errors # <<>> THEN r1
                               ELSE r2

\* run r2 after r1, in the same error list
Then(r1, r2) == IF r1.raised THEN Raise
                ELSE IF r2.raised THEN Raise
                ELSE Ret(r1.errors \o r2.errors)

\* lines 75-77 / 117-119 / 126-128: one error per field of `fields` that is
\* not in obj (obj supports `in`)
MissingFields(fields, obj, code, idx) ==
  LET miss == SelectSeq(fields, LAMBDA f : ~In(f, obj))
  IN  [i \in 1..Len(miss) |-> Err(code, idx, miss[i])]

\* lines 81-84
CheckId(m, filename_id) ==
  IF m["id"] # S(filename_id) THEN Ret(<<Err("id_mismatch", -1, "id")>>) ELSE Ret(<<>>)

\* lines 87-90
CheckType(m) ==
  IF ~Hashable(m["type"]) THEN Raise
  ELSE IF ~(m["type"].t = "str" /\ m["type"].v \in VALID_TYPES)
       THEN Ret(<<Err("invalid_type", -1, "type")>>)
       ELSE Ret(<<>>)

\* lines 93-96
CheckCategory(m) ==
  IF "category" \notin DOMAIN m THEN Ret(<<>>)
  ELSE IF ~Hashable(m["category"]) THEN Raise
  ELSE IF ~(m["category"].t = "str" /\ m["category"].v \in VALID_CATEGORIES)
       THEN Ret(<<Err("invalid_category", -1, "category")>>)
       ELSE Ret(<<>>)

\* line 102: whether evaluating has_variants raises (len of a non-sized value)
HasVariantsRaises(m) == "variants" \in DOMAIN m /\ ~HasLen(m["variants"])

\* line 102
has_variants(m) == "variants" \in DOMAIN m /\ HasLen(m["variants"]) /\ PyLen(m["variants"]) > 0

\* line 103
has_file(m) == "file" \in DOMAIN m /\ m["file"] # None

\* line 99
is_recipe(m) == m["type"] = K("recipe")

\* CheckContent with line 111 reading `not has_variants or not has_file`
CheckContent_Or(m) ==
  IF is_recipe(m)
  THEN IF "recipe" \notin DOMAIN m THEN Ret(<<Err("recipe_section", -1, "recipe")>>)
       ELSE IF ~CanIn(m["recipe"]) THEN Raise
       ELSE IF ~In("base_model", m["recipe"])
            THEN Ret(<<Err("recipe_base_model", -1, "base_model")>>)
            ELSE Ret(<<>>)
  ELSE IF ~has_variants(m) \/ ~has_file(m)
       THEN Ret(<<Err("no_content", -1, "")>>)
       ELSE Ret(<<>>)

\* lines 105-112
CheckContent(m) ==
  IF is_recipe(m)
  THEN IF "recipe" \notin DOMAIN m THEN Ret(<<Err("recipe_section", -1, "recipe")>>)
       ELSE IF ~CanIn(m["recipe"]) THEN Raise
       ELSE IF ~In("base_model", m["recipe"])
            THEN Ret(<<Err("recipe_base_model", -1, "base_model")>>)
            ELSE Ret(<<>>)
  ELSE IF ~has_variants(m) /\ ~has_file(m)
       THEN Ret(<<Err("no_content", -1, "")>>)
       ELSE Ret(<<>>)

\* lines 120-121 / 129-130: the size check of one variant or of file
CheckSize(obj, code, idx) ==
  IF ~In("size", obj) THEN Ret(<<>>)
  ELSE IF ~Subscriptable(obj) THEN Raise
  ELSE IF ~IsInstanceInt(obj.v["size"]) THEN Ret(<<Err(code, idx, "size")>>)
  ELSE Ret(<<>>)

\* lines 117-121: one variant, at index i (0-based)
CheckVariant(variant, i) ==
  IF ~CanIn(variant) THEN Raise
  ELSE Then(Ret(MissingFields(<<"id", "file", "url", "sha256", "size">>, variant,
                              "variant_missing", i)),
            CheckSize(variant, "variant_size", i))

\* lines 116-121: the variants from index i (0-based) on
RECURSIVE CheckVariantsFrom(_, _)
CheckVariantsFrom(vs, i) ==
  IF i >= Len(vs) THEN Ret(<<>>)
  ELSE Then(CheckVariant(vs[i + 1], i), CheckVariantsFrom(vs, i + 1))

\* lines 115-121
CheckVariants(m) ==
  IF has_variants(m) THEN CheckVariantsFrom(Iter(m["variants"]), 0) ELSE Ret(<<>>)

\* lines 124-130
CheckFile(m) ==
  IF ~has_file(m) THEN Ret(<<>>)
  ELSE LET f == m["file"]
       IN  IF ~CanIn(f) THEN Raise
           ELSE Then(Ret(MissingFields(<<"url", "sha256", "size">>, f, "file_missing", -1)),
                     CheckSize(f, "file_size", -1))

\* lines 79-134: the checks made once id, name and type are present
DeeperChecks(m, filename_id) ==
  IF HasVariantsRaises(m) THEN
    \* the checks before line 102 may raise too; either way the call raises
    Raise
  ELSE Then(CheckId(m, filename_id),
       Then(CheckType(m),
       Then(CheckCategory(m),
       Then(CheckContent(m),
       Then(CheckVariants(m), CheckFile(m))))))

\* validate_manifest(manifest, filepath) with filename_id = filepath.stem
validate_manifest(manifest, filename_id) ==
  IF ~CanIn(manifest) THEN Raise
  ELSE LET errors == MissingFields(<<"id", "name", "type">>, manifest, "missing", -1)
       IN  IF errors # <<>> THEN Ret(errors)
           ELSE IF ~Subscriptable(manifest) THEN Raise
           ELSE DeeperChecks(manifest.v, filename_id)

-----------------------------------------------------------------------------
(* check_placeholder_hashes *)

\* v.get("sha256", "")
GetSha(v) == IF "sha256" \in DOMAIN v.v THEN v.v["sha256"] ELSE S(<<>>)

\* one warning: the variant index it is about (-1 for file) and the hash
Warn(idx, sha) == [idx |-> idx, sha |-> sha]

\* lines 144-148, the variants from index i (0-based) on; x.get raises
\* AttributeError unless x is a dict, .startswith unless the value is a str
RECURSIVE VariantWarningsFrom(_, _)
VariantWarningsFrom(vs, i) ==
  IF i >= Len(vs) THEN Ret(<<>>)
  ELSE LET v == vs[i + 1]
       IN  IF v.t # "map" THEN Raise
           ELSE IF GetSha(v).t # "str" THEN Raise
           ELSE Then(Ret(IF StartsWith(GetSha(v).v, PLACEHOLDER_PREFIX)
                         THEN <<Warn(i, GetSha(v).v)>> ELSE <<>>),
                     VariantWarningsFrom(vs, i + 1))

\* lines 150-154
FileWarnings(m) ==
  IF ~("file" \in DOMAIN m /\ Truthy(m["file"])) THEN Ret(<<>>)
  ELSE LET f == m["file"]
       IN  IF f.t # "map" THEN Raise
           ELSE IF GetSha(f).t # "str" THEN Raise
           ELSE Ret(IF StartsWith(GetSha(f).v, PLACEHOLDER_PREFIX)
                    THEN <<Warn(-1, GetSha(f).v)>> ELSE <<>>)

\* check_placeholder_hashes without the loop over the variants (lines 143-148)
check_placeholder_hashes_FileOnly(manifest) == FileWarnings(manifest.v)

\* check_placeholder_hashes(manifest), manifest a dict; `errors` holds the
\* warnings
check_placeholder_hashes(manifest) ==
  LET m == manifest.v
  IN  Then(IF "variants" \in DOMAIN m
           THEN IF m["variants"].t \in {"list", "str", "map"}
                THEN VariantWarningsFrom(Iter(m["variants"]), 0)
                ELSE Raise
           ELSE Ret(<<>>),
           FileWarnings(m))

-----------------------------------------------------------------------------
(* float(s), for the strings that reach it at lines 168 and 178: they hold  *)
(* an "e" or an "E", so the literals inf, infinity and nan never arrive.    *)
(* A float is kept as the decimal <<m, e>> = m * 10^e with m not a multiple *)
(* of 10 (0 is <<0, 0>>); the model's literals are short enough that no     *)
(* rounding, overflow or underflow of a double occurs.                      *)

RECURSIVE LStrip(_)
LStrip(s) == IF s # <<>> /\ s[1] = " " THEN LStrip(Tail(s)) ELSE s

RECURSIVE RStrip(_)
RStrip(s) == IF s # <<>> /\ s[Len(s)] = " " THEN RStrip(SubSeq(s, 1, Len(s) - 1)) ELSE s

\* float() ignores leading and trailing whitespace
Strip(s) == RStrip(LStrip(s))

\* digits with single underscores between them: digit (["_"] digit)*
IsDigitGroup(s) ==
  /\ s # <<>>
  /\ \A i \in 1..Len(s) : IsDigit(s[i]) \/ s[i] = "_"
  /\ IsDigit(s[1]) /\ IsDigit(s[Len(s)])
  /\ \A i \in 1..(Len(s) - 1) : ~(s[i] = "_" /\ s[i + 1] = "_")

\* the digits of a digit group
OnlyDigits(s) == SelectSeq(s, IsDigit)

\* the number a sequence of digits denotes
RECURSIVE DigitsValue(_)
DigitsValue(s) ==
  IF s = <<>> THEN 0 ELSE 10 * DigitsValue(SubSeq(s, 1, Len(s) - 1)) + DigitVal(s[Len(s)])

\* the first index of character c in s, or 0
IndexOf(s, c) ==
  IF \E i \in 1..Len(s) : s[i] = c THEN CHOOSE i \in 1..Len(s) : s[i] = c /\ \A j \in 1..(i - 1) : s[j] # c
  ELSE 0

HasSign(s) == s # <<>> /\ s[1] \in {"+", "-"}

Unsigned(s) == IF HasSign(s) THEN Tail(s) ELSE s

\* m * 10^e with the trailing zeros of m moved into e
RECURSIVE Normalize(_, _)
Normalize(m, e) ==
  IF m = 0 THEN <<0, 0>>
  ELSE IF m % 10 = 0 THEN Normalize(m \div 10, e + 1)
  ELSE <<m, e>>

\* float(s): [ok |-> FALSE] is ValueError, else val is the number
ParseFloat(s) ==
  LET body == Unsigned(Strip(s))
      neg == HasSign(Strip(s)) /\ Strip(s)[1] = "-"
      low == Lower(body)
      epos == IndexOf(low, "e")
      mant == IF epos = 0 THEN body ELSE SubSeq(body, 1, epos - 1)
      expo == IF epos = 0 THEN <<>> ELSE SubSeq(body, epos + 1, Len(body))
      dot == IndexOf(mant, ".")
      ipart == IF dot = 0 THEN mant ELSE SubSeq(mant, 1, dot - 1)
      fpart == IF dot = 0 THEN <<>> ELSE SubSeq(mant, dot + 1, Len(mant))
      mantOk == /\ ipart = <<>> \/ IsDigitGroup(ipart)
                /\ fpart = <<>> \/ IsDigitGroup(fpart)
                /\ ipart # <<>> \/ fpart # <<>>
      expOk == epos = 0 \/ IsDigitGroup(Unsigned(expo))
      fdigits == OnlyDigits(fpart)
      m == DigitsValue(OnlyDigits(ipart) \o fdigits)
      ex == IF epos = 0 THEN 0
            ELSE IF HasSign(expo) /\ expo[1] = "-" THEN 0 - DigitsValue(OnlyDigits(Unsigned(expo)))
            ELSE DigitsValue(OnlyDigits(Unsigned(expo)))
  IN  IF mantOk /\ expOk
      THEN [ok |-> TRUE, val |-> Normalize(IF neg THEN 0 - m ELSE m, ex - Len(fdigits))]
      ELSE [ok |-> FALSE, val |-> <<0, 0>>]

-----------------------------------------------------------------------------
(* _coerce_floats *)

\* CoerceStr with the except clause storing 0.0 instead of passing
CoerceStr_NoFallback(v) ==
  IF IsSubstr(Chars("e"), Lower(v)) /\ ~StartsWith(v, Chars("0x"))
  THEN IF ParseFloat(v).ok THEN F(ParseFloat(v).val[1], ParseFloat(v).val[2]) ELSE F(0, 0)
  ELSE S(v)

\* lines 166-170 / 176-180: what a str value v of a dict or a list becomes
CoerceStr(v) ==
  IF IsSubstr(Chars("e"), Lower(v)) /\ ~StartsWith(v, Chars("0x"))
  THEN IF ParseFloat(v).ok THEN F(ParseFloat(v).val[1], ParseFloat(v).val[2]) ELSE S(v)
  ELSE S(v)

\* _coerce_floats(obj): the value obj holds after the call (the code rewrites
\* obj in place); a scalar, and so a str that is not inside a dict or a list,
\* is left alone
RECURSIVE _coerce_floats(_)
_coerce_floats(obj) ==
  LET item(v) == IF v.t = "str" THEN CoerceStr(v.v) ELSE _coerce_floats(v)
  IN  CASE obj.t = "map" -> M([k \in DOMAIN obj.v |-> item(obj.v[k])])
        [] obj.t = "list" -> L([i \in 1..Len(obj.v) |-> item(obj.v[i])])
        [] OTHER -> obj

-----------------------------------------------------------------------------
(* Sorting *)

\* line 260: the key x["id"] of an accepted manifest is a str
IdLess(a, b) == StrLess(a.v["id"].v, b.v["id"].v)

\* list.sort is stable: x goes after the last element that is not greater
RECURSIVE InsertById(_, _)
InsertById(s, x) ==
  IF s = <<>> THEN <<x>>
  ELSE IF IdLess(x, s[Len(s)]) THEN Append(InsertById(SubSeq(s, 1, Len(s) - 1), x), s[Len(s)])
  ELSE Append(s, x)

\* line 260: items.sort(key=lambda x: x["id"])
RECURSIVE SortById(_)
SortById(s) ==
  IF s = <<>> THEN <<>>
  ELSE InsertById(SortById(SubSeq(s, 1, Len(s) - 1)), s[Len(s)])

\* a set of str as the sequence sorted() gives
RECURSIVE SortedStrs(_)
SortedStrs(set) ==
  IF set = {} THEN <<>>
  ELSE LET least == CHOOSE a \in set : \A b \in set \ {a} : StrLess(a, b)
       IN  <<least>> \o SortedStrs(set \ {least})

-----------------------------------------------------------------------------
(* The corpus: the files <dir>/<stem>.yaml under MANIFESTS_DIR, each with   *)
(* what yaml.safe_load gives for it                                         *)

\* yaml.safe_load raised yaml.YAMLError
YamlError == [t |-> "yamlerror", v |-> 0]

YamlExt == <<".", "y", "a", "m", "l">>

\* line 196: sorted(MANIFESTS_DIR.iterdir()), the directories of the corpus
SortedDirs(files) == SortedStrs({f.dir : f \in files})

\* line 207: sorted(type_dir.glob("*.yaml")), ordered by file name
SortedFiles(files, d) ==
  LET names == SortedStrs({f.stem \o YamlExt : f \in {g \in files : g.dir = d}})
  IN  [i \in 1..Len(names) |->
         CHOOSE f \in files : f.dir = d /\ f.stem \o YamlExt = names[i]]

-----------------------------------------------------------------------------
(* build_index: the loop body, lines 208-253, for one manifest file.  The   *)
(* loop state is [items, errors_found, warnings_found, log, raised].        *)

\* Strict with line 247 not looking at sys.argv
Strict_EnvOnly(environ, argv) ==
  \/ "CI" \in DOMAIN environ /\ environ["CI"] # <<>>
  \/ "GITHUB_ACTIONS" \in DOMAIN environ /\ environ["GITHUB_ACTIONS"] # <<>>

\* line 247
Strict(environ, argv) ==
  \/ "CI" \in DOMAIN environ /\ environ["CI"] # <<>>
  \/ "GITHUB_ACTIONS" \in DOMAIN environ /\ environ["GITHUB_ACTIONS"] # <<>>
  \/ \E i \in 1..Len(argv) : argv[i] = "--strict"

\* a printed line: its kind and the file (or directory) it is about
Diag(kind, dir, stem) == [kind |-> kind, dir |-> dir, stem |-> stem]

LoopInit ==
  [items |-> <<>>, errors_found |-> FALSE, warnings_found |-> FALSE, log |-> <<>>,
   raised |-> FALSE]

\* an ERROR line, errors_found = True, continue
Fatal(st, kind, f) ==
  [st EXCEPT !.errors_found = TRUE, !.log = Append(@, Diag(kind, f.dir, f.stem))]

\* an uncaught exception leaves build_index
Uncaught(st, f) ==
  [st EXCEPT !.raised = TRUE, !.log = Append(@, Diag("traceback", f.dir, f.stem))]

\* AuditAndAppend with line 248 reading `if hash_warnings:`
AuditAndAppend_AlwaysStrict(st, f, strict) ==
  LET hash_warnings == check_placeholder_hashes(f.doc)
  IN  IF hash_warnings.raised THEN Uncaught(st, f)
      ELSE IF hash_warnings.errors # <<>>
           THEN Fatal([st EXCEPT !.warnings_found = TRUE,
                                 !.log = Append(@, Diag("placeholder_warning", f.dir, f.stem))],
                      "placeholder_error", f)
           ELSE [st EXCEPT !.items = Append(@, f.doc)]

\* lines 240-253, for a manifest that passed validation and the type check
AuditAndAppend(st, f, strict) ==
  LET hash_warnings == check_placeholder_hashes(f.doc)
  IN  IF hash_warnings.raised THEN Uncaught(st, f)
      ELSE LET warned ==
                 IF hash_warnings.errors # <<>>
                 THEN [st EXCEPT !.warnings_found = TRUE,
                                 !.log = Append(@, Diag("placeholder_warning", f.dir, f.stem))]
                 ELSE st
           IN  IF strict /\ hash_warnings.errors # <<>>
               THEN Fatal(warned, "placeholder_error", f)
               ELSE [warned EXCEPT !.items = Append(@, f.doc)]

\* lines 210-253: the file is read, validated, audited and appended
HandleManifest(st, f, strict) ==
  IF f.doc = YamlError THEN Fatal(st, "parse_error", f)
  ELSE IF f.doc = None THEN Fatal(st, "empty", f)
  ELSE LET validation_errors == validate_manifest(f.doc, f.stem)
       IN  IF validation_errors.raised THEN Uncaught(st, f)
           ELSE IF validation_errors.errors # <<>> THEN Fatal(st, "validation_error", f)
           ELSE IF f.doc.v["type"] # S(ExpectedType(f.dir)) THEN Fatal(st, "type_mismatch", f)
           ELSE AuditAndAppend(st, f, strict)

\* lines 208-253: one turn of the loop, for the file f
ProcessManifest(st, f, strict) ==
  HandleManifest([st EXCEPT !.log = Append(@, Diag("processing", f.dir, f.stem))], f, strict)

-----------------------------------------------------------------------------
(* build_index: lines 259-283, the Index built from the accepted items      *)

\* lines 260-263: sorted by id, then normalised
FinalItems(items) == _coerce_floats(L(SortById(items))).v

\* TypeCounts with line 270 reading `type_counts[t] = 1`
TypeCounts_NoIncrement(items) ==
  LET ty(i) == IF "type" \in DOMAIN items[i].v THEN items[i].v["type"] ELSE S(<<"u", "n", "k", "n", "o", "w", "n">>)
  IN  [t \in {ty(i) : i \in 1..Len(items)} |-> 1]

\* lines 266-270: item.get("type", "unknown") counted
TypeCounts(items) ==
  LET ty(i) == IF "type" \in DOMAIN items[i].v THEN items[i].v["type"] ELSE S(<<"u", "n", "k", "n", "o", "w", "n">>)
  IN  [t \in {ty(i) : i \in 1..Len(items)} |-> Cardinality({i \in 1..Len(items) : ty(i) = t})]

\* lines 271-272
CloudCount(items) ==
  Cardinality({i \in 1..Len(items) :
     "cloud_available" \in DOMAIN items[i].v /\ Truthy(items[i].v["cloud_available"])})

\* lines 275-283
BuildIndexDoc(items, now) ==
  LET final == FinalItems(items)
  IN  [version |-> 2,
       generated_at |-> now,
       total_count |-> Len(final),
       type_counts |-> TypeCounts(final),
       cloud_available_count |-> CloudCount(final),
       items |-> final]

-----------------------------------------------------------------------------
(* The manifests of the model *)

Url == S(<<"u">>)

CleanSha == S(<<"a", "b", "1">>)

PlaceholderSha == S(Chars("VERIFY_") \o <<"a">>)

FileRec(sha, size) == M([url |-> Url, sha256 |-> sha, size |-> size])

Variant(id, sha, size) ==
  M([id |-> S(id), file |-> S(<<"f">>), url |-> Url, sha256 |-> sha, size |-> size])

TemplateIds == 1..13

\* the parsed content of template n for the file <stem>.yaml
Template(n, stem) ==
  CASE n = 1 -> YamlError
    [] n = 2 -> None
    [] n = 3 -> I(42)
    [] n = 4 -> M([id |-> S(stem), name |-> S(<<"L", "e">>), type |-> K("checkpoint"),
                   file |-> FileRec(CleanSha, I(100)), lr |-> S(<<"1", "e", "-", "4">>),
                   cloud_available |-> B(TRUE)])
    [] n = 5 -> M([id |-> S(stem), name |-> S(<<"n">>), type |-> K("checkpoint"),
                   file |-> FileRec(PlaceholderSha, I(100))])
    [] n = 6 -> M([id |-> S(stem), name |-> S(<<"n">>), type |-> K("checkpoint"),
                   category |-> K("general"),
                   variants |-> L(<<Variant(<<"a">>, CleanSha, I(1)),
                                    Variant(<<"b">>, PlaceholderSha, I(2))>>)])
    [] n = 7 -> M([id |-> S(stem), name |-> S(<<"n">>), type |-> K("recipe"),
                   recipe |-> M([base_model |-> S(<<"m">>), lr |-> S(<<"5", "E", "3">>)])])
    [] n = 8 -> M([id |-> S(stem), name |-> S(<<"n">>), type |-> K("recipe"),
                   recipe |-> M(<<>>)])
    [] n = 9 -> M([id |-> S(<<"z", "z">>), name |-> S(<<"n">>), type |-> K("checkpoint"),
                   file |-> FileRec(CleanSha, I(100))])
    [] n = 10 -> M([id |-> S(stem), name |-> S(<<"n">>), type |-> K("checkpoint"),
                    file |-> FileRec(None, I(100))])
    [] n = 11 -> M([id |-> S(stem)])
    [] n = 12 -> M([id |-> S(stem), name |-> S(<<"n">>), type |-> K("checkpoint"),
                    variants |-> None, file |-> FileRec(CleanSha, I(100))])
    [] n = 13 -> M([id |-> S(stem), name |-> S(<<"n">>), type |-> K("recipe"),
                    recipe |-> M([base_model |-> S(<<"m">>)]),
                    file |-> FileRec(PlaceholderSha, I(7))])

\* the paths <<directory, stem>> of the model: two directories of
\* TYPE_DIR_MAP and one that is not in it
Paths ==
  { <<Chars("checkpoints"), <<"b">>>>,
    <<Chars("recipes"), <<"b">>>>,
    <<Chars("recipes"), <<"1", "e", "5">>>>,
    <<Chars("misc"), <<"b">>>> }

\* a corpus: at most MaxFiles files, each path with one template
Corpus(P, a) == {[dir |-> p[1], stem |-> p[2], doc |-> Template(a[p], p[2])] : p \in P}

\* how the script is run: os.environ, sys.argv[1:], and whether the output
\* paths hold an index of an earlier run
RunConfigs ==
  { [environ |-> <<>>, argv |-> <<>>, stale |-> FALSE],
    [environ |-> [CI |-> <<"t", "r", "u", "e">>], argv |-> <<>>, stale |-> TRUE],
    [environ |-> [CI |-> <<>>], argv |-> <<>>, stale |-> TRUE],
    [environ |-> [GITHUB_ACTIONS |-> <<"t", "r", "u", "e">>],
     argv |-> <<"--output", "dist/index.json">>, stale |-> FALSE],
    [environ |-> <<>>, argv |-> <<"--strict">>, stale |-> TRUE] }

\* the values of generated_at
Clock == {"t1", "t2"}

-----------------------------------------------------------------------------
(* The run of the script: __main__ and build_index *)

VARIABLES
  manifests_exists,  \* MANIFESTS_DIR.exists()
  files,             \* the corpus
  environ,           \* os.environ
  argv,              \* sys.argv[1:]
  fs,                \* the content of each output path
  pc,                \* where build_index is: "start", "walk", "done"
  dirs,              \* the directories still to walk (line 196)
  todo,              \* the files of the current directory still to process (line 207)
  items,
  errors_found,
  warnings_found,
  log,               \* the lines printed
  result,            \* "running", "True", "False" (returned) or "exception"
  arg,               \* the argument of a direct call of one function
  outs               \* what the successive direct calls returned

vars == <<manifests_exists, files, environ, argv, fs, pc, dirs, todo, items,
          errors_found, warnings_found, log, result, arg, outs>>

\* what no step of a run changes
inputs == <<manifests_exists, files, environ, argv, arg, outs>>

NoFile == [t |-> "nofile", v |-> 0]

StaleIndex == [t |-> "stale", v |-> 0]

IndexFile(doc) == [t |-> "index", v |-> doc]

OutPaths == {"index.json", "dist/index.json", "--strict"}

\* lines 298-300
OutputPath(args) ==
  IF Len(args) >= 2 /\ args[1] = "--output" THEN args[2]
  ELSE IF Len(args) >= 1 /\ args[1] # "--output" THEN args[1]
  ELSE "index.json"

Init ==
  /\ manifests_exists \in BOOLEAN
  /\ IF manifests_exists
     THEN \E P \in {Q \in SUBSET Paths : Cardinality(Q) <= MaxFiles} :
            \E a \in [P -> TemplateIds] : files = Corpus(P, a)
     ELSE files = {}
  /\ \E c \in RunConfigs :
       /\ environ = c.environ
       /\ argv = c.argv
       /\ fs = [p \in OutPaths |-> IF c.stale THEN StaleIndex ELSE NoFile]
  /\ pc = "start"
  /\ dirs = <<>>
  /\ todo = <<>>
  /\ items = <<>>
  /\ errors_found = FALSE
  /\ warnings_found = FALSE
  /\ log = <<>>
  /\ result = "running"
  /\ arg = None
  /\ outs = <<>>

\* lines 191-193
NoManifestsDir ==
  /\ pc = "start" /\ ~manifests_exists
  /\ pc' = "done" /\ result' = "False"
  /\ log' = Append(log, Diag("no_manifests_dir", <<>>, <<>>))
  /\ UNCHANGED <<inputs, fs, dirs, todo, items, errors_found, warnings_found>>

\* line 196
Start ==
  /\ pc = "start" /\ manifests_exists
  /\ pc' = "walk" /\ dirs' = SortedDirs(files)
  /\ UNCHANGED <<inputs, fs, todo, items, errors_found, warnings_found, log, result>>

\* SkipUnknownDir with the unknown directory counted as an error
SkipUnknownDir_SetsErrorFlag ==
  /\ pc = "walk" /\ todo = <<>> /\ dirs # <<>>
  /\ ~IsRecognizedDir(Head(dirs))
  /\ log' = Append(log, Diag("unknown_dir", Head(dirs), <<>>))
  /\ dirs' = Tail(dirs)
  /\ errors_found' = TRUE
  /\ UNCHANGED <<inputs, fs, pc, todo, items, warnings_found, result>>

\* lines 200-203
SkipUnknownDir ==
  /\ pc = "walk" /\ todo = <<>> /\ dirs # <<>>
  /\ ~IsRecognizedDir(Head(dirs))
  /\ log' = Append(log, Diag("unknown_dir", Head(dirs), <<>>))
  /\ dirs' = Tail(dirs)
  /\ UNCHANGED <<inputs, fs, pc, todo, items, errors_found, warnings_found, result>>

\* lines 205-207
EnterDir ==
  /\ pc = "walk" /\ todo = <<>> /\ dirs # <<>>
  /\ IsRecognizedDir(Head(dirs))
  /\ todo' = SortedFiles(files, Head(dirs))
  /\ dirs' = Tail(dirs)
  /\ UNCHANGED <<inputs, fs, pc, items, errors_found, warnings_found, log, result>>

\* lines 208-253: one turn of the loop
ProcessFile ==
  /\ pc = "walk" /\ todo # <<>>
  /\ LET st == ProcessManifest([items |-> items, errors_found |-> errors_found,
                                warnings_found |-> warnings_found, log |-> log,
                                raised |-> FALSE],
                               Head(todo), Strict(environ, argv))
     IN  /\ items' = st.items
         /\ errors_found' = st.errors_found
         /\ warnings_found' = st.warnings_found
         /\ log' = st.log
         /\ pc' = IF st.raised THEN "done" ELSE "walk"
         /\ result' = IF st.raised THEN "exception" ELSE result
  /\ todo' = Tail(todo)
  /\ UNCHANGED <<inputs, fs, dirs>>

\* lines 255-257
FailRun ==
  /\ pc = "walk" /\ todo = <<>> /\ dirs = <<>>
  /\ errors_found
  /\ pc' = "done" /\ result' = "False"
  /\ UNCHANGED <<inputs, fs, dirs, todo, items, errors_found, warnings_found, log>>

\* lines 259-294
WriteIndex ==
  /\ pc = "walk" /\ todo = <<>> /\ dirs = <<>>
  /\ ~errors_found
  /\ \E now \in Clock :
       fs' = [fs EXCEPT ![OutputPath(argv)] = IndexFile(BuildIndexDoc(items, now))]
  /\ items' = FinalItems(items)
  /\ pc' = "done" /\ result' = "True"
  /\ UNCHANGED <<inputs, dirs, todo, errors_found, warnings_found, log>>

Next ==
  \/ NoManifestsDir
  \/ Start
  \/ SkipUnknownDir
  \/ EnterDir
  \/ ProcessFile
  \/ FailRun
  \/ WriteIndex

Spec == Init /\ [][Next]_vars

-----------------------------------------------------------------------------
(* build_index with the documents processed in any order: the order         *)
(* independence asked of the append at line 253 and the sort at line 260.   *)
(* The files of the recognized directories are taken in an arbitrary order  *)
(* instead of the one of lines 196 and 207; the loop body and the end of    *)
(* the run are the same.                                                    *)

RecognizedFiles(fset) == {f \in fset : IsRecognizedDir(f.dir)}

\* lines 207-253: the loop over a sequence of files, left when one raises
RECURSIVE RunLoop(_, _, _)
RunLoop(st, fseq, strict) ==
  IF fseq = <<>> \/ st.raised THEN st
  ELSE RunLoop(ProcessManifest(st, Head(fseq), strict), Tail(fseq), strict)

\* lines 196-253: the walk over the directories ds of the corpus, left when a
\* file raises; a directory outside TYPE_DIR_MAP gets its warning (lines
\* 200-203), the files of the others are taken in sorted order
RECURSIVE WalkDirs(_, _, _, _)
WalkDirs(st, fset, ds, strict) ==
  IF ds = <<>> \/ st.raised THEN st
  ELSE IF ~IsRecognizedDir(Head(ds))
       THEN WalkDirs([st EXCEPT !.log = Append(@, Diag("unknown_dir", Head(ds), <<>>))],
                     fset, Tail(ds), strict)
       ELSE WalkDirs(RunLoop(st, SortedFiles(fset, Head(ds)), strict), fset, Tail(ds), strict)

\* the loop state build_index reaches at line 255 on a corpus
WalkResult(fset, strict) == WalkDirs(LoopInit, fset, SortedDirs(fset), strict)

-----------------------------------------------------------------------------
(* Direct calls of validate_manifest, on manifests built field by field     *)

IdOpts == <<S(<<"b">>), S(<<"z", "z">>)>>

NameOpts == <<S(<<"n">>)>>

Bogus == S(<<"b", "o", "g", "u", "s">>)

TypeOpts == <<K("checkpoint"), K("recipe"), Bogus, L(<<>>)>>

CategoryOpts == <<K("general"), Bogus>>

VariantsOpts ==
  << None,
     L(<<>>),
     L(<<Variant(<<"a">>, CleanSha, I(1))>>),
     L(<<Variant(<<"a">>, CleanSha, S(<<"1", "0", "0", "0">>))>>),
     L(<<Variant(<<"a">>, PlaceholderSha, B(TRUE)), M([id |-> S(<<"c">>), size |-> F(15, -1)])>>),
     L(<<I(1)>>) >>

FileOpts ==
  << None,
     FileRec(CleanSha, I(100)),
     FileRec(CleanSha, F(15, -1)),
     M([url |-> Url]),
     S(<<"x">>),
     M(<<>>) >>

RecipeOpts ==
  << None,
     M(<<>>),
     M([base_model |-> S(<<"m">>)]),
     K("base_model") >>

FieldOpts(k) ==
  CASE k = "id" -> IdOpts
    [] k = "name" -> NameOpts
    [] k = "type" -> TypeOpts
    [] k = "category" -> CategoryOpts
    [] k = "variants" -> VariantsOpts
    [] k = "file" -> FileOpts
    [] k = "recipe" -> RecipeOpts

ManifestFields == {"id", "name", "type", "category", "variants", "file", "recipe"}

\* the manifest that holds, for each field k, its option c[k] (0: absent)
BuildManifest(c) ==
  M([k \in {f \in ManifestFields : c[f] > 0} |-> FieldOpts(k)[c[k]]])

\* documents that are not mappings
OtherDocs ==
  { I(42), L(<<>>), L(<<K("id"), K("name"), K("type")>>),
    S(Chars("id") \o Chars("name") \o Chars("type")) }

\* the stem of the file the manifests are validated for
CallStem == <<"b">>

\* the run variables when no run is made
NoRun ==
  /\ manifests_exists = FALSE
  /\ files = {}
  /\ environ = <<>>
  /\ argv = <<>>
  /\ fs = [p \in OutPaths |-> NoFile]
  /\ pc = "idle"
  /\ dirs = <<>>
  /\ todo = <<>>
  /\ items = <<>>
  /\ errors_found = FALSE
  /\ warnings_found = FALSE
  /\ log = <<>>
  /\ result = "running"

run == <<manifests_exists, files, environ, argv, fs, pc, dirs, todo, items,
         errors_found, warnings_found, log, result>>

InitValidate ==
  /\ NoRun
  /\ \/ \E i \in 0..Len(IdOpts), n \in 0..Len(NameOpts), t \in 0..Len(TypeOpts),
           c \in 0..Len(CategoryOpts), v \in 0..Len(VariantsOpts),
           f \in 0..Len(FileOpts), r \in 0..Len(RecipeOpts) :
          arg = BuildManifest([id |-> i, name |-> n, type |-> t, category |-> c,
                               variants |-> v, file |-> f, recipe |-> r])
     \/ arg \in OtherDocs
  /\ outs = <<>>

\* errors = validate_manifest(manifest, filepath)
CallValidate ==
  /\ outs = <<>>
  /\ outs' = <<validate_manifest(arg, CallStem)>>
  /\ UNCHANGED <<run, arg>>

SpecValidate == InitValidate /\ [][CallValidate]_vars

-----------------------------------------------------------------------------
(* Direct calls of _coerce_floats, on nested structures                     *)

\* how deep the structures nest
MaxDepth == 2

\* how many times the normaliser is applied to one structure
MaxApply == 2

Leaves ==
  { S(<<"1", "e", "-", "4">>), S(<<"5", "E", "3">>), S(<<"0", "x", "1", "e">>),
    S(<<"L", "e">>), S(<<"a", "b">>), I(3), F(1, -4), None }

RECURSIVE Nest(_)
Nest(d) ==
  IF d = 0 THEN Leaves
  ELSE LET prev == Nest(d - 1)
       IN  Leaves \cup {L(<<x>>) : x \in prev} \cup {M([lr |-> x]) : x \in prev}
                  \cup {L(<<x, y>>) : x \in Leaves, y \in prev}

InitCoerce ==
  /\ NoRun
  /\ arg \in Nest(MaxDepth)
  /\ outs = <<>>

\* _coerce_floats(obj), on the structure the call before left
CallCoerce ==
  /\ Len(outs) < MaxApply
  /\ outs' = Append(outs, _coerce_floats(IF outs = <<>> THEN arg ELSE outs[Len(outs)]))
  /\ UNCHANGED <<run, arg>>

SpecCoerce == InitCoerce /\ [][CallCoerce]_vars

-----------------------------------------------------------------------------
(* Vocabulary of the properties *)

FatalKinds == {"parse_error", "empty", "validation_error", "type_mismatch", "placeholder_error"}

\* a fatal diagnostic was printed
HasFatal(l) == \E i \in 1..Len(l) : l[i].kind \in FatalKinds

\* a line of the given kind was printed about file f
Printed(kind, f) == \E i \in 1..Len(log) : log[i] = Diag(kind, f.dir, f.stem)

\* the loop body has run for file f
Processed(f) == Printed("processing", f)

NoFatalFor(f) == \A k \in FatalKinds : ~Printed(k, f)

\* the Index documents in the output paths
Emitted == {fs[p].v : p \in {q \in OutPaths : fs[q].t = "index"}}

\* a manifest as it stands in the Index: _coerce_floats(items) normalises
\* every element of the list
Normalised(doc) == _coerce_floats(L(<<doc>>)).v[1]

\* the manifest of file f is in the working set (normalised once the run
\* has succeeded)
InItems(f) ==
  \E i \in 1..Len(items) :
     items[i] = IF result = "True" THEN Normalised(f.doc) ELSE f.doc

\* validate_manifest returns no error for file f and its type is the one of
\* its directory
SchemaValidInGrouping(f) ==
  /\ IsRecognizedDir(f.dir)
  /\ f.doc.t = "map"
  /\ validate_manifest(f.doc, f.stem) = Ret(<<>>)
  /\ f.doc.v["type"] = S(ExpectedType(f.dir))

IsPlaceholder(sha) == sha.t = "str" /\ StartsWith(sha.v, Chars("VERIFY_"))

HasSha(rec) == rec.t = "map" /\ "sha256" \in DOMAIN rec.v

\* the sha256 values of a manifest: the one of file and those of the variants
ShaValues(doc) ==
  IF doc.t # "map" THEN {}
  ELSE (IF "file" \in DOMAIN doc.v /\ HasSha(doc.v["file"])
        THEN {doc.v["file"].v["sha256"]} ELSE {})
       \cup
       (IF "variants" \in DOMAIN doc.v /\ doc.v["variants"].t = "list"
        THEN {doc.v["variants"].v[i].v["sha256"] :
                i \in {j \in 1..Len(doc.v["variants"].v) : HasSha(doc.v["variants"].v[j])}}
        ELSE {})

HasPlaceholderSha(doc) == \E sha \in ShaValues(doc) : IsPlaceholder(sha)

AllShaStr(doc) == \A sha \in ShaValues(doc) : sha.t = "str"

\* strict mode as the documentation words it: a CI or GITHUB_ACTIONS marker
\* in the environment, or the --strict flag
StrictOn ==
  \/ "CI" \in DOMAIN environ /\ environ["CI"] # <<>>
  \/ "GITHUB_ACTIONS" \in DOMAIN environ /\ environ["GITHUB_ACTIONS"] # <<>>
  \/ \E i \in 1..Len(argv) : argv[i] = "--strict"

RECURSIVE SumCounts(_)
SumCounts(tc) ==
  IF DOMAIN tc = {} THEN 0
  ELSE LET k == CHOOSE x \in DOMAIN tc : TRUE
       IN  tc[k] + SumCounts([x \in DOMAIN tc \ {k} |-> tc[x]])

-----------------------------------------------------------------------------
(* Properties of a run (specification Spec) *)

\* C1: all-or-nothing publication.  Once a document of a recognized directory
\* has produced a fatal diagnostic, the finished run has returned False and
\* no output path holds an Index written by it.
C1_AllOrNothing ==
  (pc = "done" /\ HasFatal(log)) =>
     /\ result = "False"
     /\ \A p \in OutPaths : fs[p].t # "index"

\* C2: every item of an emitted Index is the (normalised) manifest of a file
\* for which validate_manifest returned no error; and when strict mode is
\* off, a processed manifest whose only findings are placeholder-hash
\* warnings is in items and no fatal diagnostic is printed for it.
C2_OnlyValidItems ==
  /\ \A idx \in Emitted : \A i \in 1..Len(idx.items) :
       \E f \in RecognizedFiles(files) :
          /\ f.doc.t = "map"
          /\ validate_manifest(f.doc, f.stem) = Ret(<<>>)
          /\ idx.items[i] = Normalised(f.doc)
  /\ ~StrictOn =>
       \A f \in RecognizedFiles(files) :
          ( /\ Processed(f)
            /\ SchemaValidInGrouping(f)
            /\ ~check_placeholder_hashes(f.doc).raised
            /\ check_placeholder_hashes(f.doc).errors # <<>> )
          => /\ InItems(f)
             /\ NoFatalFor(f)
             /\ (result = "True" => \E idx \in Emitted : \E i \in 1..Len(idx.items) :
                                       idx.items[i] = Normalised(f.doc))

\* C2 witness: a non-strict run has emitted an Index that holds a manifest
\* with a placeholder hash
C2_Witness ==
  /\ ~StrictOn /\ result = "True"
  /\ \E idx \in Emitted : \E f \in RecognizedFiles(files) :
       /\ SchemaValidInGrouping(f) /\ HasPlaceholderSha(f.doc)
       /\ \E i \in 1..Len(idx.items) : idx.items[i] = Normalised(f.doc)

\* the id of an item of an Index
ItemId(idx, i) == idx.items[i].v["id"]

\* C3: in every emitted Index, items is sorted ascending by id and no two
\* items have the same id.
C3_SortedNoDuplicates ==
  \A idx \in Emitted : \A i, j \in 1..Len(idx.items) :
     i < j =>
       /\ ItemId(idx, i) # ItemId(idx, j)
       /\ (ItemId(idx, i).t = "str" /\ ItemId(idx, j).t = "str")
             => StrLess(ItemId(idx, i).v, ItemId(idx, j).v)

\* C4: no document aborts the run.  A finished run has processed every
\* document of every recognized directory and has returned True exactly when
\* no fatal diagnostic was recorded, False otherwise.
C4_NeverAborts ==
  (pc = "done" /\ manifests_exists) =>
     /\ \A f \in RecognizedFiles(files) : Processed(f)
     /\ result \in {"True", "False"}
     /\ (result = "True") <=> ~HasFatal(log)

\* C5: strict-mode policy.  A processed manifest that is schema-valid in its
\* own grouping and whose sha256 values are strings: with a placeholder hash
\* it is appended with a warning when strict mode is off, and rejected with
\* errors_found set when strict mode is on (CI or GITHUB_ACTIONS marker, or
\* --strict); without a placeholder hash it is appended in both modes, and
\* the loop body gives the same state for it with strict on and off.
C5_StrictPolicy ==
  /\ \A f \in RecognizedFiles(files) :
       (Processed(f) /\ SchemaValidInGrouping(f) /\ AllShaStr(f.doc)) =>
          IF HasPlaceholderSha(f.doc)
          THEN IF StrictOn
               THEN /\ ~InItems(f) /\ errors_found /\ Printed("placeholder_error", f)
                    /\ result # "True"
               ELSE /\ InItems(f) /\ Printed("placeholder_warning", f) /\ NoFatalFor(f)
                    /\ warnings_found
          ELSE InItems(f) /\ ~Printed("placeholder_warning", f) /\ NoFatalFor(f)
  /\ (pc = "walk" /\ todo # <<>> /\ ~HasPlaceholderSha(Head(todo).doc)) =>
       LET st == [items |-> items, errors_found |-> errors_found,
                  warnings_found |-> warnings_found, log |-> log, raised |-> FALSE]
       IN  ProcessManifest(st, Head(todo), TRUE) = ProcessManifest(st, Head(todo), FALSE)

\* C5 witness: the --strict flag alone has rejected a schema-valid manifest
\* with a placeholder hash
C5_Witness ==
  /\ DOMAIN environ = {} /\ StrictOn
  /\ \E f \in RecognizedFiles(files) :
       /\ Processed(f) /\ SchemaValidInGrouping(f) /\ AllShaStr(f.doc)
       /\ HasPlaceholderSha(f.doc) /\ Printed("placeholder_error", f) /\ ~InItems(f)

\* the files whose manifests the loop accepts
AcceptedFiles ==
  {f \in RecognizedFiles(files) :
     /\ SchemaValidInGrouping(f)
     /\ ~check_placeholder_hashes(f.doc).raised
     /\ StrictOn => check_placeholder_hashes(f.doc).errors = <<>>}

\* C6: in every emitted Index the values of type_counts sum to total_count,
\* which is the length of items and the number of accepted manifests, and
\* every key of type_counts is the type of an item.
C6_Counts ==
  \A idx \in Emitted :
     /\ SumCounts(idx.type_counts) = idx.total_count
     /\ idx.total_count = Len(idx.items)
     /\ Len(idx.items) = Cardinality(AcceptedFiles)
     /\ \A k \in DOMAIN idx.type_counts :
          \E i \in 1..Len(idx.items) : idx.items[i].v["type"] = k

\* C6 witness: an emitted Index with two items of one type
C6_Witness ==
  \E idx \in Emitted :
     /\ idx.total_count = 2
     /\ Cardinality(DOMAIN idx.type_counts) = 1

\* C7: every item of an emitted Index is the manifest of a file whose stem
\* is the item's id and whose directory maps to the item's type.
C7_IdAndType ==
  \A idx \in Emitted : \A i \in 1..Len(idx.items) :
     \E f \in RecognizedFiles(files) :
        /\ idx.items[i] = Normalised(f.doc)
        /\ idx.items[i].v["id"] = S(f.stem)
        /\ idx.items[i].v["type"] = S(ExpectedType(f.dir))

-----------------------------------------------------------------------------
(* Properties of the order in which the documents are processed           *)
(* (specification Spec)                                                     *)

\* the sequences that hold each element of a set once
RECURSIVE Orders(_)
Orders(set) ==
  IF set = {} THEN {<<>>}
  ELSE UNION {{<<x>> \o o : o \in Orders(set \ {x})} : x \in set}

\* C8: order independence.  Whatever the order in which the loop of lines
\* 207-253 takes the documents of the recognized directories, it ends as the
\* finished run did: it raises when the run did, it accepts the same
\* documents, and its items, sorted and normalised, are the items sequence
\* of the published Index.
C8_OrderIndependent ==
  (pc = "done" /\ manifests_exists) =>
     \A o \in Orders(RecognizedFiles(files)) :
        LET r == RunLoop(LoopInit, o, Strict(environ, argv))
        IN  /\ (result = "exception") <=> r.raised
            /\ (result = "True") <=> (~r.raised /\ ~r.errors_found)
            /\ result = "False" =>
                 {items[i] : i \in 1..Len(items)} = {r.items[i] : i \in 1..Len(r.items)}
            /\ result = "True" =>
                 /\ items = FinalItems(r.items)
                 /\ \A idx \in Emitted : idx.items = FinalItems(r.items)

-----------------------------------------------------------------------------
(* Properties of _coerce_floats (specification SpecCoerce) *)

\* the values directly inside a dict or a list, with where they are
Members(obj) ==
  CASE obj.t = "map" -> {<<k, obj.v[k]>> : k \in DOMAIN obj.v}
    [] obj.t = "list" -> {<<i, obj.v[i]>> : i \in 1..Len(obj.v)}
    [] OTHER -> {}

IsNumeric(x) == x.t \in {"int", "float", "bool"}

\* a str that holds an "e" or "E" and that float() rejects
IsUnparsableE(x) ==
  x.t = "str" /\ IsSubstr(Chars("e"), Lower(x.v)) /\ ~ParseFloat(x.v).ok

\* C9: the normaliser is idempotent.  Every further application leaves the
\* structure as the first application left it; the numeric values of the
\* structure are unchanged, and the strings with an "e" that do not parse as
\* a float are the same strings after every application.
C9_Idempotent ==
  /\ \A n \in 2..Len(outs) : outs[n] = outs[1]
  /\ \A n \in 1..Len(outs) : \A mem \in Members(arg) :
       (IsNumeric(mem[2]) \/ IsUnparsableE(mem[2])) => outs[n].v[mem[1]] = mem[2]

\* C9 witness: applied twice to a structure in which the first application
\* turned a string into a number, and which holds a string with an "e" that
\* does not parse
C9_Witness ==
  /\ Len(outs) = 2
  /\ outs[1] # arg
  /\ \E mem \in Members(arg) : IsUnparsableE(mem[2])
  /\ \E mem \in Members(arg) : mem[2].t = "str" /\ outs[1].v[mem[1]].t = "float"

-----------------------------------------------------------------------------
(* Properties of validate_manifest (specification SpecValidate) *)

\* validate_manifest was called on a mapping that passed the required-field
\* gate and whose fields have the shapes of the data model: type a string,
\* category (if any) a string, variants (if any) a sequence, recipe (if any)
\* a mapping
ReachedContentBranch ==
  /\ outs # <<>>
  /\ arg.t = "map" /\ {"id", "name", "type"} \subseteq DOMAIN arg.v
  /\ arg.v["type"].t = "str"
  /\ "category" \in DOMAIN arg.v => arg.v["category"].t = "str"
  /\ "variants" \in DOMAIN arg.v => arg.v["variants"].t = "list"
  /\ "recipe" \in DOMAIN arg.v => arg.v["recipe"].t = "map"

\* the call returned an error list that holds an error of this kind
HasError(code) ==
  ~outs[1].raised /\ \E i \in 1..Len(outs[1].errors) : outs[1].errors[i].code = code

AbsentOrEmpty(m, k) == k \notin DOMAIN m \/ PyLen(m[k]) = 0

AbsentOrNull(m, k) == k \notin DOMAIN m \/ m[k] = None

\* a recipe manifest that is valid but for its recipe section: the id is the
\* stem, the category (if any) is valid, and it has neither file nor variants
BareRecipe(m) ==
  /\ m["type"] = K("recipe")
  /\ m["id"] = S(CallStem)
  /\ "category" \in DOMAIN m => m["category"].v \in VALID_CATEGORIES
  /\ "file" \notin DOMAIN m /\ "variants" \notin DOMAIN m

\* C10: the content-shape branch.  A recipe with valid id and name and
\* neither file nor variants gets exactly one error when recipe is absent,
\* exactly one when recipe has no base_model, none when recipe.base_model is
\* present; no recipe gets the content-shape error.  A manifest of another
\* type gets the content-shape error exactly when variants is absent or empty
\* and file is absent or null.
C10_ContentShape ==
  ReachedContentBranch =>
     LET m == arg.v
     IN  /\ m["type"] = K("recipe") => ~HasError("no_content")
         /\ m["type"] # K("recipe") =>
              (HasError("no_content") <=>
                 (AbsentOrEmpty(m, "variants") /\ AbsentOrNull(m, "file")))
         /\ BareRecipe(m) =>
              outs[1] = Ret(IF "recipe" \notin DOMAIN m
                            THEN <<Err("recipe_section", -1, "recipe")>>
                            ELSE IF "base_model" \notin DOMAIN m["recipe"].v
                            THEN <<Err("recipe_base_model", -1, "base_model")>>
                            ELSE <<>>)

\* C10 witness: a recipe without file and variants whose recipe section has
\* no base_model got exactly one error
C10_Witness ==
  /\ ReachedContentBranch
  /\ BareRecipe(arg.v)
  /\ "recipe" \in DOMAIN arg.v /\ arg.v["recipe"] = M(<<>>)
  /\ Len(outs[1].errors) = 1

-----------------------------------------------------------------------------
(* Properties of the variant and file checks (specification SpecValidate) *)

\* validate_manifest was called on a mapping that passed the required-field
\* gate, whose variants (if any) is a sequence of mappings and whose file
\* (if any) is a mapping or null
ReachedRecordChecks ==
  /\ ReachedContentBranch
  /\ "variants" \in DOMAIN arg.v =>
       \A i \in 1..Len(arg.v["variants"].v) : arg.v["variants"].v[i].t = "map"
  /\ "file" \in DOMAIN arg.v => arg.v["file"].t \in {"map", "null"}

\* how many times the error e is in the returned list
Count(e) == Cardinality({k \in 1..Len(outs[1].errors) : outs[1].errors[k] = e})

VariantFields == {"id", "file", "url", "sha256", "size"}

FileFields == {"url", "sha256", "size"}

\* the integers of the data model: booleans are not byte counts
IsInteger(x) == x.t = "int"

\* the errors the claim expects for one record (a variant at a 0-based index,
\* or file with index -1)
RecordErrorsAsClaimed(rec, fields, missing, size, idx) ==
  /\ \A f \in fields : Count(Err(missing, idx, f)) = IF f \in DOMAIN rec.v THEN 0 ELSE 1
  /\ Count(Err(size, idx, "size")) =
       IF "size" \in DOMAIN rec.v /\ ~IsInteger(rec.v["size"]) THEN 1 ELSE 0

\* a checkpoint that is valid but for its variants
ValidButVariants(m) ==
  /\ m["type"] = K("checkpoint") /\ m["id"] = S(CallStem)
  /\ "category" \in DOMAIN m => m["category"].v \in VALID_CATEGORIES
  /\ "file" \notin DOMAIN m /\ "variants" \in DOMAIN m

\* C11: size must be an integer.  For every variant of a non-empty variants
\* sequence and for a non-null file, the call returns one error per missing
\* required field and, when size is present, exactly one size error if and
\* only if the size is not an integer (a float, a string, a boolean); a
\* manifest whose only defect is one variant with a string size gets exactly
\* one error.
C11_SizeInteger ==
  ReachedRecordChecks =>
     LET m == arg.v
     IN  /\ ~outs[1].raised
         /\ "variants" \in DOMAIN m =>
              \A i \in 1..Len(m["variants"].v) :
                 RecordErrorsAsClaimed(m["variants"].v[i], VariantFields,
                                       "variant_missing", "variant_size", i - 1)
         /\ ("file" \in DOMAIN m /\ m["file"] # None) =>
              RecordErrorsAsClaimed(m["file"], FileFields, "file_missing", "file_size", -1)
         /\ (ValidButVariants(m)
               /\ m["variants"] = L(<<Variant(<<"a">>, CleanSha, S(<<"1", "0", "0", "0">>))>>)) =>
              outs[1].errors = <<Err("variant_size", 0, "size")>>

-----------------------------------------------------------------------------
(* Properties of the required-field gate (specification SpecValidate) *)

RequiredFields == {"id", "name", "type"}

\* the errors of one record (a variant at a 0-based index, or file with
\* index -1): one per missing field, one for a size that is no number of
\* bytes
RecordDefects(rec, fields, missing, size, idx) ==
  {Err(missing, idx, f) : f \in fields \ DOMAIN rec.v}
    \cup (IF "size" \in DOMAIN rec.v /\ rec.v["size"].t \notin {"int", "bool"}
          THEN {Err(size, idx, "size")} ELSE {})

\* the errors of a manifest m that has id, name and type, one check after
\* the other, each told from m alone
Defects(m) ==
  (IF m["id"] # S(CallStem) THEN {Err("id_mismatch", -1, "id")} ELSE {})
    \cup (IF m["type"].v \notin VALID_TYPES THEN {Err("invalid_type", -1, "type")} ELSE {})
    \cup (IF "category" \in DOMAIN m /\ m["category"].v \notin VALID_CATEGORIES
          THEN {Err("invalid_category", -1, "category")} ELSE {})
    \cup (IF m["type"] = K("recipe") /\ "recipe" \notin DOMAIN m
          THEN {Err("recipe_section", -1, "recipe")} ELSE {})
    \cup (IF m["type"] = K("recipe") /\ "recipe" \in DOMAIN m
             /\ "base_model" \notin DOMAIN m["recipe"].v
          THEN {Err("recipe_base_model", -1, "base_model")} ELSE {})
    \cup (IF m["type"] # K("recipe") /\ AbsentOrEmpty(m, "variants") /\ AbsentOrNull(m, "file")
          THEN {Err("no_content", -1, "")} ELSE {})
    \cup (IF "variants" \in DOMAIN m
          THEN UNION {RecordDefects(m["variants"].v[i], VariantFields,
                                    "variant_missing", "variant_size", i - 1) :
                        i \in 1..Len(m["variants"].v)}
          ELSE {})
    \cup (IF "file" \in DOMAIN m /\ m["file"] # None
          THEN RecordDefects(m["file"], FileFields, "file_missing", "file_size", -1)
          ELSE {})

\* C12: the required-field gate.  When one of id, name, type is absent from
\* the manifest, the call returns exactly one "missing" error per absent
\* field and nothing else, whatever the other fields hold.  When all three
\* are present, every check that fails has its errors in the returned list,
\* each once, and the list holds nothing else.
C12_RequiredFieldGate ==
  (outs # <<>> /\ arg.t = "map") =>
     LET m == arg.v
         absent == RequiredFields \ DOMAIN m
     IN  /\ absent # {} =>
              /\ ~outs[1].raised
              /\ Len(outs[1].errors) = Cardinality(absent)
              /\ \A f \in absent : Count(Err("missing", -1, f)) = 1
         /\ (absent = {} /\ ReachedRecordChecks) =>
              /\ ~outs[1].raised
              /\ {outs[1].errors[k] : k \in 1..Len(outs[1].errors)} = Defects(m)
              /\ Len(outs[1].errors) = Cardinality(Defects(m))

\* C12 witness: a manifest with id, name and type got the errors of four
\* different checks in one call
C12_Witness ==
  /\ ReachedRecordChecks
  /\ ~outs[1].raised
  /\ Count(Err("id_mismatch", -1, "id")) = 1
  /\ Count(Err("invalid_category", -1, "category")) = 1
  /\ Count(Err("variant_size", 0, "size")) = 1
  /\ Count(Err("file_missing", -1, "sha256")) = 1

-----------------------------------------------------------------------------
(* Properties of the directories outside TYPE_DIR_MAP (specification Spec) *)

\* the directories of the corpus that TYPE_DIR_MAP does not name
UnknownDirs == {f.dir : f \in files \ RecognizedFiles(files)}

\* how many lines of the log are about directory d
LinesAbout(d) == Cardinality({i \in 1..Len(log) : log[i].dir = d})

\* the run has gone through every directory
WalkFinished == pc = "done" /\ result \in {"True", "False"}

\* C13: unrecognized groupings are non-fatal and fully skipped.  A directory
\* that is no key of TYPE_DIR_MAP gets one warning and nothing else: none of
\* its documents is processed or added to items, and the error flag is only
\* ever set with a fatal diagnostic about a document of a recognized
\* directory.  The finished run has the outcome and, when it succeeds, the
\* Index (but for generated_at) of the run on the corpus without those
\* directories.
C13_UnknownDirsSkipped ==
  /\ \A d \in UnknownDirs :
       /\ LinesAbout(d) <= 1
       /\ WalkFinished => LinesAbout(d) = 1
       /\ \A i \in 1..Len(log) : log[i].dir = d => log[i] = Diag("unknown_dir", d, <<>>)
  /\ errors_found =>
       \E i \in 1..Len(log) : log[i].kind \in FatalKinds /\ IsRecognizedDir(log[i].dir)
  /\ pc # "done" =>
       \A i \in 1..Len(items) : \E f \in RecognizedFiles(files) : items[i] = f.doc
  /\ (pc = "done" /\ manifests_exists) =>
       LET w == WalkResult(RecognizedFiles(files), Strict(environ, argv))
       IN  /\ (result = "exception") <=> w.raised
           /\ (result = "True") <=> (~w.raised /\ ~w.errors_found)
           /\ result = "True" =>
                fs[OutputPath(argv)] \in {IndexFile(BuildIndexDoc(w.items, now)) : now \in Clock}

\* C13 witness: a run over a corpus with a valid manifest and, under a
\* directory outside TYPE_DIR_MAP, a document that is no manifest, has
\* written an Index with one item
C13_Witness ==
  /\ pc = "done" /\ result = "True"
  /\ \E f \in files : ~IsRecognizedDir(f.dir) /\ f.doc.t # "map"
  /\ fs[OutputPath(argv)].t = "index" /\ Len(fs[OutputPath(argv)].v.items) = 1

-----------------------------------------------------------------------------
(* Properties of the Index of a strict run (specification Spec) *)

\* C14: with strict mode on, no item of an emitted Index has a file.sha256
\* or a variants[*].sha256 that starts with VERIFY_; and a strict run that
\* succeeds has the Index of the non-strict loop over the same corpus, which
\* ends without error and without a placeholder warning.
C14_StrictIndexClean ==
  StrictOn =>
     /\ \A idx \in Emitted : \A i \in 1..Len(idx.items) : ~HasPlaceholderSha(idx.items[i])
     /\ (pc = "done" /\ result = "True") =>
          LET w == WalkResult(files, FALSE)
          IN  /\ ~w.raised /\ ~w.errors_found /\ ~w.warnings_found
              /\ fs[OutputPath(argv)] \in
                   {IndexFile(BuildIndexDoc(w.items, now)) : now \in Clock}

\* C14 witness: a strict run has emitted an Index that holds a manifest with
\* a hash, over a corpus of two manifests under recognized directories
C14_Witness ==
  /\ StrictOn /\ pc = "done" /\ result = "True"
  /\ Cardinality(RecognizedFiles(files)) = 2
  /\ \E idx \in Emitted : \E i \in 1..Len(idx.items) : ShaValues(idx.items[i]) # {}

====
